---------------------------- MODULE Spec2Model ----------------------------
(***************************************************************************)
(* A model of fetch.py: the GitHubScraper class (_make_request,            *)
(* clean_company_name, search_users, get_user_repositories) and main().    *)
(*                                                                         *)
(* Strings that the code inspects character by character (the token and    *)
(* the company) are sequences of one-character strings; the other strings  *)
(* are opaque TLA+ strings.  JSON values are tagged records, so that a key *)
(* missing from a mapping (Absent), a null (Null) and a value differ.      *)
(***************************************************************************)
EXTENDS Integers, Sequences, FiniteSets, TLC

\* ------------------------------------------------------------------ bounds

\* longest company string drawn as an input of clean_company_name
MaxLen == 3
\* longest token typed at the prompt
MaxTokLen == 2
\* non-200 responses that do not end the run, per run
MaxFaults == 2
\* the clock when the run starts (seconds); the epoch, 0, is in the past
StartTime == 10
\* search pages explored of an upstream whose search never runs dry
MaxPages == 4

\* --------------------------------------------------------------- constants

\* 'per_page': 100 in both protocols
PerPage == 100
\* max_repos: int = 500
DefaultMaxRepos == 500
\* if len(response) < 100: break
FullPage == 100

Min(a, b) == IF a < b THEN a ELSE b
Max(a, b) == IF a > b THEN a ELSE b

\* ------------------------------------------------------------ JSON values

Null == [t |-> "null"]
Absent == [t |-> "absent"]
Str(s) == [t |-> "str", v |-> s]
Txt(s) == [t |-> "chars", v |-> s]
Login(id) == [t |-> "login", v |-> id]
Bool(b) == [t |-> "bool", v |-> b]
Num(n) == [t |-> "num", v |-> n]
Obj(o) == [t |-> "obj", v |-> o]

\* d[k] of a Python dict: KeyError when the key is missing
KeyError == [err |-> "KeyError"]
IsErr(r) == "err" \in DOMAIN r

\* d.get(k): None when the key is missing
DictGet(x) == IF x = Absent THEN Null ELSE x

\* Python truthiness of a JSON value: None, "", empty sequence, 0 and False are falsy
Truthy(x) ==
    CASE x.t = "null" -> FALSE
      [] x.t = "str" -> x.v # ""
      [] x.t = "chars" -> x.v # <<>>
      [] x.t = "bool" -> x.v
      [] x.t = "num" -> x.v # 0
      [] OTHER -> TRUE

\* ------------------------------------------------------- character strings

Chars == {" ", "@", "a", "A"}
TokChars == {" ", "t"}

RECURSIVE SeqsUpTo(_, _)
SeqsUpTo(S, n) ==
    IF n = 0 THEN {<<>>}
    ELSE LET shorter == SeqsUpTo(S, n - 1)
         IN shorter \cup {Append(s, c) : s \in {x \in shorter : Len(x) = n - 1}, c \in S}

IsSpace(c) == c = " "

\* str.lstrip(chars): drop every leading character that satisfies the test
RECURSIVE LStripSpace(_)
LStripSpace(s) ==
    IF s # <<>> /\ IsSpace(Head(s)) THEN LStripSpace(Tail(s)) ELSE s

RECURSIVE RStripSpace(_)
RStripSpace(s) ==
    IF s # <<>> /\ IsSpace(s[Len(s)]) THEN RStripSpace(SubSeq(s, 1, Len(s) - 1)) ELSE s

\* str.strip()
Strip(s) == LStripSpace(RStripSpace(s))

LStripAtOnce(s) == IF s # <<>> /\ Head(s) = "@" THEN Tail(s) ELSE s

\* str.lstrip('@'): every leading '@' goes
RECURSIVE LStripAt(_)
LStripAt(s) == IF s # <<>> /\ Head(s) = "@" THEN LStripAt(Tail(s)) ELSE s

UpperChar(c) == IF c = "a" THEN "A" ELSE c

\* str.upper()
Upper(s) == [i \in 1..Len(s) |-> UpperChar(s[i])]

\* a different clean_company_name: only the first '@' goes
CleanOneAt(company) ==
    IF ~Truthy(company) THEN <<>> ELSE Upper(LStripAtOnce(Strip(company.v)))

\* GitHubScraper.clean_company_name: company is Null or Txt(<chars>)
clean_company_name(company) ==
    IF ~Truthy(company) THEN <<>> ELSE Upper(LStripAt(Strip(company.v)))

\* ------------------------------------------------------------- normalizers

\* x if x else ""
OrEmpty(x) == IF Truthy(x) THEN x ELSE Str("")

\* str(x) of a JSON value
PyStr(x) ==
    CASE x.t = "bool" -> IF x.v THEN "True" ELSE "False"
      [] x.t = "null" -> "None"
      [] OTHER -> x.v

\* a faulty rendering: .lower() is forgotten
LowerStrForgotten(s) == s

\* str.lower() on the strings str() produces here
LowerStr(s) ==
    CASE s = "True" -> "true"
      [] s = "False" -> "false"
      [] s = "None" -> "none"
      [] OTHER -> s

\* str(x).lower() if x is not None else ""
Hireable(x) == IF x # Null THEN Str(LowerStr(PyStr(x))) ELSE Str("")

\* the keys search_users reads with user_data[k]
UserIndexed == {"login", "name", "location", "email", "hireable", "bio",
                "public_repos", "followers", "following", "created_at"}

\* the cleaned_data dict of search_users; user_data maps every key of UserKeys
\* to a JSON value or to Absent
CleanedData(user_data) ==
    IF \E k \in UserIndexed : user_data[k] = Absent THEN KeyError
    ELSE [login |-> user_data.login,
          name |-> OrEmpty(user_data.name),
          company |-> Txt(clean_company_name(DictGet(user_data.company))),
          location |-> OrEmpty(user_data.location),
          email |-> OrEmpty(user_data.email),
          hireable |-> Hireable(user_data.hireable),
          bio |-> OrEmpty(user_data.bio),
          public_repos |-> user_data.public_repos,
          followers |-> user_data.followers,
          following |-> user_data.following,
          created_at |-> user_data.created_at]

\* the keys get_user_repositories reads with repo[k]
RepoIndexed == {"full_name", "created_at", "stargazers_count", "watchers_count",
                "language", "has_projects", "has_wiki"}

\* repo['license']['key'] if repo.get('license') else ""
LicenseName(lic) == IF Truthy(DictGet(lic)) THEN lic.v.key ELSE Str("")

\* a faulty owner column: taken from the repository mapping
OwnerFromRepo(uname, repo) == repo.full_name

\* 'login': username
OwnerLogin(uname, repo) == uname

\* the repo_data dict of get_user_repositories
RepoData(uname, repo) ==
    IF \E k \in RepoIndexed : repo[k] = Absent THEN KeyError
    ELSE [login |-> OwnerLogin(uname, repo),
          full_name |-> repo.full_name,
          created_at |-> repo.created_at,
          stargazers_count |-> repo.stargazers_count,
          watchers_count |-> repo.watchers_count,
          language |-> OrEmpty(repo.language),
          has_projects |-> Str(LowerStr(PyStr(repo.has_projects))),
          has_wiki |-> Str(LowerStr(PyStr(repo.has_wiki))),
          license_name |-> LicenseName(repo.license)]

\* ---------------------------------------------------------------- upstream

VARIABLES
    up,          \* the upstream: [pages: sizes of the successive search pages,
                 \*   nlogins: distinct accounts, rt: repository totals per account,
                 \*   budget: how many answers that neither succeed nor fail it gives,
                 \*   endless: the search pages repeat for ever, none is empty]
    now          \* the clock, in seconds

RECURSIVE SumTo(_, _)
SumTo(sizes, n) == IF n = 0 THEN 0 ELSE SumTo(sizes, n - 1) + sizes[n]

\* the account the g-th search hit names (the search may list an account twice)
LoginId(g) == ((g - 1) % up.nlogins) + 1

ItemOf(g) == [login |-> Login(LoginId(g)), url |-> [kind |-> "user", id |-> LoginId(g)]]

\* the 'items' of search page p
SearchItems(p) ==
    IF p \in 1..Len(up.pages)
    THEN [i \in 1..up.pages[p] |-> ItemOf(SumTo(up.pages, p - 1) + i)]
    ELSE IF up.endless /\ p > 0
    THEN LET q == ((p - 1) % Len(up.pages)) + 1
         IN [i \in 1..up.pages[q] |-> ItemOf(SumTo(up.pages, q - 1) + i)]
    ELSE <<>>

\* number of repositories account id owns
RepoTotal(id) == up.rt[((id - 1) % Len(up.rt)) + 1]

\* the profile mapping of account id; the API sends every key, null when unset
UserDetail(id) ==
    LET k == id % 3
    IN [login |-> Login(id),
        name |-> CASE k = 0 -> Null [] k = 1 -> Str("Ann") [] OTHER -> Str(""),
        company |-> CASE k = 0 -> Null
                      [] k = 1 -> Txt(<<"@", "A", "a", " ">>)
                      [] OTHER -> Txt(<<" ", "a">>),
        location |-> IF k = 0 THEN Null ELSE Str("Bangalore"),
        email |-> IF k = 1 THEN Str("ann@x") ELSE Null,
        hireable |-> CASE k = 0 -> Null [] k = 1 -> Bool(TRUE) [] OTHER -> Bool(FALSE),
        bio |-> IF k = 2 THEN Str("bio") ELSE Null,
        public_repos |-> Num(RepoTotal(id)),
        followers |-> Num(100 + id),
        following |-> Num(id),
        created_at |-> Str("2012-01-01T00:00:00Z")]

\* the k-th most recently pushed repository of account id
RawRepo(id, k) ==
    [full_name |-> [t |-> "repo", v |-> <<id, k>>],
     created_at |-> Str("2020-01-01T00:00:00Z"),
     stargazers_count |-> Num(k),
     watchers_count |-> Num(k),
     language |-> IF k % 2 = 0 THEN Null ELSE Str("Python"),
     has_projects |-> Bool(k % 2 = 0),
     has_wiki |-> Bool(k % 3 = 0),
     license |-> IF k % 3 = 1 THEN Null ELSE Obj([key |-> Str("mit")])]

\* page p of account id's repositories, sort=pushed&direction=desc, n per page
ReposPage(id, p, n) ==
    LET first == (p - 1) * n
        size == Max(0, Min(n, RepoTotal(id) - first))
    IN [i \in 1..size |-> RawRepo(id, first + i)]

NoParams == [none |-> TRUE]
\* the API's defaults for a parameter that is not sent
ParamPage(params) == IF "page" \in DOMAIN params THEN params.page ELSE 1
ParamPerPage(params) == IF "per_page" \in DOMAIN params THEN params.per_page ELSE 30

\* the parsed body of a 200 answer to request r
UpstreamBody(r) ==
    CASE r.url.kind = "search" -> [items |-> SearchItems(ParamPage(r.params))]
      [] r.url.kind = "user" -> UserDetail(r.url.id)
      [] OTHER -> ReposPage(r.url.id, ParamPage(r.params), ParamPerPage(r.params))

\* ------------------------------------------------------------------- state

VARIABLES
    pc,          \* where the program is (see the actions)
    typed,       \* history: what input() returned was "empty", "spaces" or "text"
    token,       \* main's token: the input, trimmed
    headers,     \* self.headers, Absent until a GitHubScraper is constructed
    mrpc,        \* _make_request: "idle", "get", "sleep", "ret" or "raised"
    req,         \* _make_request's arguments: [url, params]
    body,        \* what _make_request returned: response.json()
    sleep_time,  \* the local of _make_request
    wakeAt,      \* history: the clock value at which the current wait ends
    sent,        \* history: the requests.get calls of the current _make_request
    n403,        \* history: 403 answers in the current _make_request
    nloop,       \* history: other answers that neither returned nor raised
    lastResp,    \* the response local, until the branch taken on it has run
    faults,      \* history: answers so far that neither returned nor raised
    gets,        \* history: requests.get calls per endpoint
    users, page, items, idx,                    \* search_users' locals
    username, max_repos, repos, rpage, result,  \* get_user_repositories' locals
    uidx, all_repos,                            \* main's loop over users
    usersCsv, reposCsv, readme,                 \* the files, Absent until written
    abortInfo,   \* the exception that ended the run, Absent if none
    fin, fout    \* a pure function's argument and its successive results

upvars == <<up>>
httpvars == <<mrpc, req, body, sleep_time, wakeAt, now, sent, n403, nloop, lastResp,
              faults, gets>>
searchvars == <<users, page, items, idx>>
repovars == <<username, max_repos, repos, rpage, result>>
mainvars == <<typed, token, headers, uidx, all_repos>>
filevars == <<usersCsv, reposCsv, readme>>
purevars == <<fin, fout>>
vars == <<pc, upvars, httpvars, searchvars, repovars, mainvars, filevars, abortInfo,
          purevars>>

\* ------------------------------------------------------------ _make_request

NoHdr == [has |-> FALSE, val |-> 0]
Hdr(v) == [has |-> TRUE, val |-> v]
\* int(response.headers.get(name, default))
HeaderGet(h, default) == IF h.has THEN h.val ELSE default

OkResp == [status |-> 200, rl |-> FALSE, reset |-> NoHdr]
NoResp == [status |-> 0, rl |-> FALSE, reset |-> NoHdr]
\* the answers the upstream may give at clock value t: rl says whether a 403 is
\* due to rate limiting; reset is the X-RateLimit-Reset header
Responses(t) ==
    {OkResp}
    \cup {[status |-> 403, rl |-> TRUE, reset |-> h] :
             h \in {NoHdr, Hdr(t - 3), Hdr(t), Hdr(t + 5)}}
    \cup {[status |-> 403, rl |-> FALSE, reset |-> NoHdr]}
    \cup {[status |-> st, rl |-> FALSE, reset |-> NoHdr] : st \in {204, 404, 500}}

\* Response.raise_for_status() raises for 4xx and 5xx only
RaisesForStatus(status) == status >= 400 /\ status < 600

\* a faulty dispatch: a server error is retried like a rate limit
DispositionRetry5xx(status) ==
    CASE status = 200 -> "return"
      [] status = 403 \/ status >= 500 -> "sleep"
      [] OTHER -> IF RaisesForStatus(status) THEN "raise" ELSE "loop"

\* the if / elif / else of the loop body
Disposition(status) ==
    CASE status = 200 -> "return"
      [] status = 403 -> "sleep"
      [] OTHER -> IF RaisesForStatus(status) THEN "raise" ELSE "loop"

\* a faulty wait: the + 1 is forgotten
SleepTimeNoMargin(reset_time, t) == Max(reset_time - t, 0)

\* max(reset_time - time.time(), 0) + 1
SleepTime(reset_time, t) == Max(reset_time - t, 0) + 1

\* a faulty retry: the query parameters are sent on the first attempt only
LoopRequestDropsParams(r, n) == IF n > 1 THEN [r EXCEPT !.params = NoParams] ELSE r

\* the request of the n-th iteration: requests.get(url, headers=..., params=params)
LoopRequest(r, n) == r

\* the clock when time.sleep(d), entered at t, returns
AfterSleep(t, d) == t + d

\* a call of _make_request(url, params)
MakeRequest(url, params) ==
    /\ mrpc' = "get"
    /\ req' = [url |-> url, params |-> params, headers |-> headers]
    /\ sent' = <<>>
    /\ n403' = 0
    /\ nloop' = 0
    /\ UNCHANGED <<body, sleep_time, wakeAt, now, lastResp, faults, gets>>

\* one iteration of the while True loop: the GET and the branch on its status
MR_Get ==
    /\ mrpc = "get"
    /\ \E r \in Responses(now) :
         LET out == LoopRequest(req, Len(sent) + 1)
             d == Disposition(r.status)
         IN /\ d \in {"sleep", "loop"} => faults < up.budget
            /\ sent' = Append(sent, out)
            /\ gets' = [gets EXCEPT ![req.url.kind] = @ + 1]
            /\ lastResp' = r
            /\ faults' = IF d \in {"sleep", "loop"} THEN faults + 1 ELSE faults
            /\ n403' = IF r.status = 403 THEN n403 + 1 ELSE n403
            /\ nloop' = IF d = "loop" THEN nloop + 1 ELSE nloop
            /\ mrpc' = CASE d = "return" -> "ret"
                         [] d = "sleep" -> "sleep"
                         [] d = "raise" -> "raised"
                         [] OTHER -> "get"
            /\ body' = IF d = "return" THEN UpstreamBody(out) ELSE body
            /\ sleep_time' = IF d = "sleep"
                             THEN SleepTime(HeaderGet(r.reset, 0), now)
                             ELSE sleep_time
            /\ wakeAt' = IF d = "sleep" THEN now + sleep_time' ELSE wakeAt
            /\ pc' = IF d = "raise" THEN "aborted" ELSE pc
            /\ abortInfo' = IF d = "raise"
                            THEN [why |-> "HTTPError", status |-> r.status, at |-> pc]
                            ELSE abortInfo
    /\ UNCHANGED <<req, now, upvars, searchvars, repovars, mainvars, filevars, purevars>>

\* time.sleep(sleep_time), then the loop goes round
MR_Sleep ==
    /\ mrpc = "sleep"
    /\ now' = AfterSleep(now, sleep_time)
    /\ mrpc' = "get"
    /\ lastResp' = NoResp
    /\ UNCHANGED <<pc, req, body, sleep_time, wakeAt, sent, n403, nloop, faults,
                   gets, upvars, searchvars, repovars, mainvars, filevars, abortInfo,
                   purevars>>

\* the caller takes the value _make_request returned; its locals are gone
Returned ==
    /\ mrpc = "ret"
    /\ mrpc' = "idle"
    /\ sleep_time' = 0
    /\ wakeAt' = 0
    /\ sent' = <<>>
    /\ n403' = 0
    /\ nloop' = 0
    /\ UNCHANGED <<req, body, now, lastResp, faults, gets>>

\* an exception other than requests' leaves the run where pc was
Raise(why) ==
    /\ pc' = "aborted"
    /\ abortInfo' = [why |-> why, status |-> 0, at |-> pc]

\* ------------------------------------------------------------- search_users

Query == "location:Bangalore followers:>=100"
SearchUrl == [kind |-> "search", id |-> 0]

\* a faulty start: the pages are counted from 0
FirstPageZero == 1 - 1

\* page = 1
FirstPage == 1

\* the call scraper.search_users(...): users = [], page = 1
EnterSearch ==
    /\ users' = <<>>
    /\ page' = FirstPage
    /\ UNCHANGED <<items, idx>>

\* a faulty empty-page test: a page that is not full ends the search too
SearchEndsOnShortPage(its) == Len(its) < PerPage

\* if not response.get('items'): break
SearchEnds(its) == its = <<>>

\* the loop top: the search request of the current page
SearchRequest ==
    /\ pc = "search_loop"
    /\ up.endless => page <= MaxPages
    /\ MakeRequest(SearchUrl, [q |-> Query, per_page |-> PerPage, page |-> page])
    /\ pc' = "search_wait"
    /\ UNCHANGED <<upvars, searchvars, repovars, mainvars, filevars, abortInfo, purevars>>

\* the search page arrived: an empty one ends the search
SearchResponse ==
    /\ pc = "search_wait"
    /\ Returned
    /\ IF SearchEnds(body.items)
       THEN /\ pc' = "users_returned"
            /\ UNCHANGED <<items, idx>>
       ELSE /\ pc' = "detail_loop"
            /\ items' = body.items
            /\ idx' = 1
    /\ UNCHANGED <<users, page, upvars, repovars, mainvars, filevars,
                   abortInfo, purevars>>

\* a faulty loop: every detail request goes to the first item's url
DetailUrlFirst(its, i) == its[1].url

\* user['url'] of the i-th item of the page
DetailUrl(its, i) == its[i].url

\* for user in response['items']: the detail request of the current item
DetailRequest ==
    /\ pc = "detail_loop"
    /\ MakeRequest(DetailUrl(items, idx), NoParams)
    /\ pc' = "detail_wait"
    /\ UNCHANGED <<upvars, searchvars, repovars, mainvars, filevars, abortInfo, purevars>>

\* the profile arrived: clean it, append it, go to the next item or the next page
DetailResponse ==
    /\ pc = "detail_wait"
    /\ Returned
    /\ LET cleaned_data == CleanedData(body)
       IN IF IsErr(cleaned_data)
          THEN /\ Raise("KeyError")
               /\ UNCHANGED searchvars
          ELSE /\ users' = Append(users, cleaned_data)
               /\ abortInfo' = abortInfo
               /\ IF idx < Len(items)
                  THEN /\ idx' = idx + 1
                       /\ pc' = "detail_loop"
                       /\ UNCHANGED <<page, items>>
                  ELSE /\ page' = page + 1
                       /\ pc' = "search_loop"
                       /\ UNCHANGED <<items, idx>>
    /\ UNCHANGED <<upvars, repovars, mainvars, filevars, purevars>>

\* ---------------------------------------------------- get_user_repositories

ReposUrl(login) == [kind |-> "repos", id |-> login.v]

\* a faulty return: the list is not cut
ReturnAll(rs, n) == rs

\* return repos[:max_repos]
ReturnSlice(rs, n) == SubSeq(rs, 1, Min(n, Len(rs)))

\* the call get_user_repositories(name, n): repos = [], page = 1
EnterRepos(name, n) ==
    /\ username' = name
    /\ max_repos' = n
    /\ repos' = <<>>
    /\ rpage' = FirstPage
    /\ UNCHANGED result

\* a faulty loop test: one more round when the count has just reached the maximum
BelowOrAtMax(rs, n) == Len(rs) <= n

\* len(repos) < max_repos
BelowMax(rs, n) == Len(rs) < n

\* while len(repos) < max_repos: the request of the current page, or the return
RepoLoop ==
    /\ pc = "repo_loop"
    /\ IF BelowMax(repos, max_repos)
       THEN /\ MakeRequest(ReposUrl(username),
                           [sort |-> "pushed", direction |-> "desc",
                            per_page |-> PerPage, page |-> rpage])
            /\ pc' = "repo_wait"
            /\ UNCHANGED result
       ELSE /\ result' = ReturnSlice(repos, max_repos)
            /\ pc' = "repos_returned"
            /\ UNCHANGED httpvars
    /\ UNCHANGED <<username, max_repos, repos, rpage, upvars, searchvars, mainvars,
                   filevars, abortInfo, purevars>>

\* the page arrived: an empty one ends the loop; else its rows are appended and a
\* page that is not full ends the loop
RepoResponse ==
    /\ pc = "repo_wait"
    /\ Returned
    /\ LET rows == [i \in 1..Len(body) |-> RepoData(username, body[i])]
       IN IF body = <<>>
          THEN /\ result' = ReturnSlice(repos, max_repos)
               /\ pc' = "repos_returned"
               /\ UNCHANGED <<repos, rpage, abortInfo>>
          ELSE IF \E i \in 1..Len(rows) : IsErr(rows[i])
          THEN /\ Raise("KeyError")
               /\ UNCHANGED <<repos, rpage, result>>
          ELSE /\ repos' = repos \o rows
               /\ abortInfo' = abortInfo
               /\ IF Len(body) < FullPage
                  THEN /\ result' = ReturnSlice(repos', max_repos)
                       /\ pc' = "repos_returned"
                       /\ UNCHANGED rpage
                  ELSE /\ rpage' = rpage + 1
                       /\ pc' = "repo_loop"
                       /\ UNCHANGED result
    /\ UNCHANGED <<username, max_repos, upvars, searchvars, mainvars, filevars,
                   purevars>>

\* --------------------------------------------------------------------- main

\* a faulty check: the token is not trimmed
TokenUntrimmed(raw) == raw

\* input("Enter your GitHub token: ").strip()
Token(raw) == Strip(raw)

\* GitHubScraper.__init__: the headers every request carries
ScraperHeaders(tok) ==
    [Authorization |-> <<"token ">> \o tok, Accept |-> "application/vnd.github.v3+json"]

\* what was typed at the prompt, by kind
Typed(raw) ==
    CASE raw = <<>> -> "empty"
      [] \A i \in 1..Len(raw) : raw[i] = " " -> "spaces"
      [] OTHER -> "text"

\* the prompt; without a token main returns, else the scraper is built and the
\* user search called
MainStart ==
    /\ pc = "main_input"
    /\ \E raw \in SeqsUpTo(TokChars, MaxTokLen) :
         /\ typed' = Typed(raw)
         /\ token' = Token(raw)
         /\ IF token' = <<>>
            THEN /\ pc' = "exit"
                 /\ UNCHANGED <<headers, searchvars>>
            ELSE /\ headers' = ScraperHeaders(token')
                 /\ EnterSearch
                 /\ pc' = "search_loop"
    /\ UNCHANGED <<uidx, all_repos, upvars, httpvars, repovars, filevars, abortInfo,
                   purevars>>

\* a faulty output: users.csv is not written at this point
UsersFileUnwritten(us) == Absent

\* users_df = pd.DataFrame(users); users_df.to_csv('users.csv', index=False)
UsersFile(us) == [rows |-> us]

\* users_df.to_csv('users.csv'); all_repos = []
WriteUsers ==
    /\ pc = "users_returned"
    /\ usersCsv' = UsersFile(users)
    /\ all_repos' = <<>>
    /\ uidx' = 1
    /\ pc' = "repos_for"
    /\ UNCHANGED <<typed, token, headers, reposCsv, readme, upvars, httpvars, searchvars,
                   repovars, abortInfo, purevars>>

\* for user in users: the call of get_user_repositories, or the end of the loop
ReposFor ==
    /\ pc = "repos_for"
    /\ IF uidx <= Len(users)
       THEN /\ EnterRepos(users[uidx].login, DefaultMaxRepos)
            /\ pc' = "repo_loop"
       ELSE /\ pc' = "write_repos"
            /\ UNCHANGED repovars
    /\ UNCHANGED <<upvars, httpvars, searchvars, mainvars, filevars, abortInfo, purevars>>

\* a faulty aggregation: the new rows are put in front
ExtendInFront(all, rs) == rs \o all

\* all_repos.extend(repos), as a value
ExtendWith(all, rs) == all \o rs

\* all_repos.extend(repos)
ExtendRepos ==
    /\ pc = "repos_returned"
    /\ all_repos' = ExtendWith(all_repos, result)
    /\ uidx' = uidx + 1
    /\ pc' = "repos_for"
    /\ UNCHANGED <<typed, token, headers, upvars, httpvars, searchvars, repovars, filevars,
                   abortInfo, purevars>>

\* repos_df.to_csv('repositories.csv')
WriteRepos ==
    /\ pc = "write_repos"
    /\ reposCsv' = [rows |-> all_repos]
    /\ pc' = "write_readme"
    /\ UNCHANGED <<usersCsv, readme, upvars, httpvars, searchvars, repovars, mainvars,
                   abortInfo, purevars>>

\* with open('README.md', 'w') as f: f.write(...)
WriteReadme ==
    /\ pc = "write_readme"
    /\ readme' = [rows |-> <<>>]
    /\ pc' = "done"
    /\ UNCHANGED <<usersCsv, reposCsv, upvars, httpvars, searchvars, repovars, mainvars,
                   abortInfo, purevars>>

\* ---------------------------------------------------------- pure functions

\* clean_company_name applied to the argument, then to its own result
CleanCompany ==
    /\ pc = "clean"
    /\ Len(fout) < 2
    /\ fout' = Append(fout, clean_company_name(IF fout = <<>> THEN fin
                                               ELSE Txt(fout[Len(fout)])))
    /\ UNCHANGED <<pc, fin, upvars, httpvars, searchvars, repovars, mainvars, filevars,
                   abortInfo>>

\* the cleaned_data expression of search_users on one profile mapping
NormalizeUser ==
    /\ pc = "normalize"
    /\ fin.kind = "user"
    /\ fout' = <<CleanedData(fin.rec)>>
    /\ pc' = IF IsErr(fout'[1]) THEN "aborted" ELSE "normalized"
    /\ UNCHANGED <<fin, upvars, httpvars, searchvars, repovars, mainvars, filevars,
                   abortInfo>>

\* the repo_data expression of get_user_repositories on one repository mapping
NormalizeRepo ==
    /\ pc = "normalize"
    /\ fin.kind = "repo"
    /\ fout' = <<RepoData(Login(1), fin.rec)>>
    /\ pc' = IF IsErr(fout'[1]) THEN "aborted" ELSE "normalized"
    /\ UNCHANGED <<fin, upvars, httpvars, searchvars, repovars, mainvars, filevars,
                   abortInfo>>

\* scraper.search_users(location='Bangalore', min_followers=100), called directly
CallSearch ==
    /\ pc = "call_search"
    /\ EnterSearch
    /\ pc' = "search_loop"
    /\ UNCHANGED <<upvars, httpvars, repovars, mainvars, filevars, abortInfo, purevars>>

MaxReposInputs == {0, 1, 10, 100, 150, 500}

\* scraper.get_user_repositories(username, max_repos), called directly
CallRepos ==
    /\ pc = "call_repos"
    /\ \E n \in MaxReposInputs : EnterRepos(Login(1), n)
    /\ pc' = "repo_loop"
    /\ UNCHANGED <<upvars, httpvars, searchvars, mainvars, filevars, abortInfo, purevars>>

\* ----------------------------------------------------------- specifications

NoRequest == [url |-> SearchUrl, params |-> NoParams, headers |-> Absent]

\* everything but pc, up, the token and the function arguments, before anything ran
Fresh ==
    /\ now = StartTime
    /\ mrpc = "idle"
    /\ req = NoRequest
    /\ body = Absent
    /\ sleep_time = 0
    /\ wakeAt = 0
    /\ sent = <<>>
    /\ n403 = 0
    /\ nloop = 0
    /\ lastResp = OkResp
    /\ faults = 0
    /\ gets = [search |-> 0, user |-> 0, repos |-> 0]
    /\ users = <<>> /\ page = 0 /\ items = <<>> /\ idx = 0
    /\ username = Absent /\ max_repos = 0 /\ repos = <<>> /\ rpage = 0 /\ result = <<>>
    /\ uidx = 0 /\ all_repos = <<>>
    /\ usersCsv = Absent /\ reposCsv = Absent /\ readme = Absent
    /\ abortInfo = Absent

Upstream(pages, nlogins, rt, budget) ==
    [pages |-> pages, nlogins |-> nlogins, rt |-> rt, budget |-> budget,
     endless |-> FALSE]
\* an upstream whose search pages repeat for ever
Endless(pages, nlogins, budget) ==
    [pages |-> pages, nlogins |-> nlogins, rt |-> <<0>>, budget |-> budget,
     endless |-> TRUE]
NoUpstream == Upstream(<<>>, 1, <<0>>, 0)

\* the upstreams main() is run against
MainUpstreams ==
    {Upstream(<<>>, 1, <<0>>, MaxFaults),
     Upstream(<<1>>, 1, <<0>>, MaxFaults),
     Upstream(<<2, 1>>, 3, <<1, 2>>, MaxFaults),
     Upstream(<<2>>, 1, <<2>>, MaxFaults),
     Upstream(<<1, 1>>, 2, <<101, 0>>, Min(1, MaxFaults)),
     Upstream(<<2, 1>>, 2, <<1, 2>>, Min(1, MaxFaults)),
     Upstream(<<2>>, 1, <<300>>, 0),
     Upstream(<<1>>, 1, <<501>>, 0)}

\* main(): the whole run
Init ==
    /\ pc = "main_input"
    /\ up \in MainUpstreams
    /\ typed = "" /\ token = <<>> /\ headers = Absent
    /\ fin = Absent /\ fout = <<>>
    /\ Fresh

Next ==
    \/ MainStart
    \/ SearchRequest
    \/ SearchResponse
    \/ DetailRequest
    \/ DetailResponse
    \/ MR_Get
    \/ MR_Sleep
    \/ WriteUsers
    \/ ReposFor
    \/ RepoLoop
    \/ RepoResponse
    \/ ExtendRepos
    \/ WriteRepos
    \/ WriteReadme

Spec == Init /\ [][Next]_vars

\* the upstreams search_users is run against
SearchUpstreams ==
    {Upstream(<<>>, 1, <<0>>, MaxFaults),
     Upstream(<<1>>, 1, <<0>>, MaxFaults),
     Upstream(<<2, 1>>, 3, <<0>>, MaxFaults),
     Upstream(<<2, 2>>, 2, <<0>>, MaxFaults),
     Upstream(<<37>>, 37, <<0>>, 0),
     Upstream(<<100, 100, 37>>, 237, <<0>>, Min(1, MaxFaults))}

\* search_users(location='Bangalore', min_followers=100) called on a scraper
InitSearch ==
    /\ up \in SearchUpstreams
    /\ typed = "text" /\ token = <<"t">> /\ headers = ScraperHeaders(<<"t">>)
    /\ fin = Absent /\ fout = <<>>
    /\ Fresh
    /\ pc = "call_search"

NextSearch ==
    \/ CallSearch
    \/ SearchRequest
    \/ SearchResponse
    \/ DetailRequest
    \/ DetailResponse
    \/ MR_Get
    \/ MR_Sleep

SpecSearch == InitSearch /\ [][NextSearch]_vars

RepoTotals == {0, 1, 25, 99, 100, 101, 200, 250, 501}

\* get_user_repositories(username, max_repos) called on a scraper
InitRepos ==
    /\ up \in {Upstream(<<>>, 1, <<n>>, IF n < 2 * PerPage THEN MaxFaults ELSE 0) :
                   n \in RepoTotals}
    /\ typed = "text" /\ token = <<"t">> /\ headers = ScraperHeaders(<<"t">>)
    /\ fin = Absent /\ fout = <<>>
    /\ Fresh
    /\ pc = "call_repos"

NextRepos ==
    \/ CallRepos
    \/ RepoLoop
    \/ RepoResponse
    \/ MR_Get
    \/ MR_Sleep

SpecRepos == InitRepos /\ [][NextRepos]_vars

\* clean_company_name(company) for every company up to MaxLen characters, and None
InitClean ==
    /\ pc = "clean"
    /\ up = NoUpstream
    /\ typed = "text" /\ token = <<"t">> /\ headers = ScraperHeaders(<<"t">>)
    /\ fin \in {Null} \cup {Txt(s) : s \in SeqsUpTo(Chars, MaxLen)}
    /\ fout = <<>>
    /\ Fresh

NextClean == CleanCompany

SpecClean == InitClean /\ [][NextClean]_vars

\* what an optional key of a mapping may hold: a value, null, or the key is missing
Optional(v) == {v, Null, Absent}

UserMappings ==
    {[UserDetail(1) EXCEPT !.name = n, !.company = c, !.location = l, !.email = e,
                           !.hireable = h, !.bio = b] :
        n \in Optional(Str("Ann")), c \in Optional(Txt(<<"@", "A", "a", " ">>)),
        l \in Optional(Str("Bangalore")), e \in Optional(Str("ann@x")),
        h \in Optional(Bool(TRUE)) \cup {Bool(FALSE)}, b \in Optional(Str("bio"))}

RepoMappings ==
    {[RawRepo(1, 1) EXCEPT !.language = l, !.license = c, !.has_projects = p,
                           !.has_wiki = w] :
        l \in Optional(Str("Python")), c \in Optional(Obj([key |-> Str("mit")])),
        p \in {Bool(TRUE), Bool(FALSE)}, w \in {Bool(TRUE), Bool(FALSE)}}

\* the two normalizers, each on every mapping with or without its optional keys
InitNorm ==
    /\ pc = "normalize"
    /\ up = NoUpstream
    /\ typed = "text" /\ token = <<"t">> /\ headers = ScraperHeaders(<<"t">>)
    /\ fin \in {[kind |-> "user", rec |-> r] : r \in UserMappings}
               \cup {[kind |-> "repo", rec |-> r] : r \in RepoMappings}
    /\ fout = <<>>
    /\ Fresh

NextNorm ==
    \/ NormalizeUser
    \/ NormalizeRepo

SpecNorm == InitNorm /\ [][NextNorm]_vars

\* the upstreams the termination of search_users is checked against
FairUpstreams ==
    {Upstream(<<>>, 1, <<0>>, MaxFaults),
     Upstream(<<1>>, 1, <<0>>, MaxFaults),
     Upstream(<<2, 1>>, 3, <<0>>, MaxFaults),
     Endless(<<1>>, 1, MaxFaults),
     Endless(<<2, 1>>, 3, Min(1, MaxFaults))}

InitSearchFair ==
    /\ up \in FairUpstreams
    /\ typed = "text" /\ token = <<"t">> /\ headers = ScraperHeaders(<<"t">>)
    /\ fin = Absent /\ fout = <<>>
    /\ Fresh
    /\ pc = "call_search"

\* search_users on one thread: whatever step the program can take, it takes
SpecSearchFair == InitSearchFair /\ [][NextSearch]_vars /\ WF_vars(NextSearch)

\* ------------------------------------------------------------------- claims

\* the rows search_users returns when nothing goes wrong: one per search hit, in order
ExpectedUsers ==
    [g \in 1..SumTo(up.pages, Len(up.pages)) |-> CleanedData(UserDetail(LoginId(g)))]

\* the rows get_user_repositories(login, n) returns when nothing goes wrong
ExpectedRepos(login, n) ==
    [k \in 1..Min(n, RepoTotal(login.v)) |-> RepoData(login, RawRepo(login.v, k))]

ClaimPages == <<100, 100, 37>>

\* C1 as stated: against search pages of 100, 100 and 37 items and nothing after
\* them, with no rate limiting, search_users returns 237 records after exactly 3
\* search-page requests and 237 detail requests.
C1_ThreePageRequests ==
    (pc = "users_returned" /\ up.pages = ClaimPages /\ faults = 0)
        => /\ Len(users) = 237
           /\ gets.search = 3
           /\ gets.user = 237

\* C1, amended: against search pages of 100, 100 and 37 items and nothing after
\* them, with no rate limiting, search_users returns 237 records after exactly 4
\* search-page requests (pages 1 to 3 and the empty page 4) and 237 detail requests.
C1_FourPageRequests ==
    (pc = "users_returned" /\ up.pages = ClaimPages /\ faults = 0)
        => /\ Len(users) = 237
           /\ gets.search = 4
           /\ gets.user = 237
           /\ page = 4

C1_Witness ==
    /\ pc = "users_returned"
    /\ up.pages = ClaimPages
    /\ faults = 0
    /\ Len(users) = 237

\* C2: get_user_repositories(username, max_repos) returns exactly the first
\* min(max_repos, T) entries of the owner's T-entry listing, in the listing's order,
\* and never more than max_repos entries.
C2_FirstMaxRepos ==
    pc = "repos_returned"
        => LET T == RepoTotal(username.v)
               n == IF max_repos < T THEN max_repos ELSE T
           IN /\ Len(result) = n
              /\ Len(result) <= max_repos
              /\ \A k \in 1..n :
                    /\ result[k].full_name = RawRepo(username.v, k).full_name
                    /\ result[k].login = username

C2_Witness ==
    /\ pc = "repos_returned"
    /\ max_repos = 10
    /\ RepoTotal(username.v) = 25
    /\ Len(result) = 10
    /\ result[10].full_name.v = <<1, 10>>

\* C3: a _make_request that met n 403 answers and then a 200 has issued exactly
\* n + 1 requests, each with the url and the parameters of the call, and returns the
\* body of that request; a 403 never ends the run; and search_users and
\* get_user_repositories return what they return without any 403.
C3_RetryTransparent ==
    /\ (mrpc = "ret" /\ nloop = 0)
          => /\ Len(sent) = n403 + 1
             /\ \A i \in 1..Len(sent) :
                   sent[i].url = req.url /\ sent[i].params = req.params
             /\ body = UpstreamBody(req)
    /\ pc = "aborted" => abortInfo.status # 403
    /\ pc = "users_returned" => users = ExpectedUsers
    /\ pc = "repos_returned" => result = ExpectedRepos(username, max_repos)

C3_Witness ==
    /\ mrpc = "ret"
    /\ pc = "repo_wait"
    /\ n403 = 2
    /\ nloop = 0
    /\ Len(sent) = 3
    /\ req.params.page = 1

\* C4: the wait after a 403 is max(reset - now, 0) + 1 seconds, with a missing
\* reset header read as 0: it is at least 1, it is between 5 and 6 for a reset of
\* now + 5, and the request is retried only once the wait is over.
C4_WaitBeforeRetry ==
    /\ mrpc = "sleep"
          => LET reset == IF lastResp.reset.has THEN lastResp.reset.val ELSE 0
             IN /\ sleep_time >= 1
                /\ reset > now => sleep_time = reset - now + 1
                /\ reset <= now => sleep_time = 1
                /\ reset = now + 5 => sleep_time >= 5 /\ sleep_time <= 6
                /\ wakeAt = now + sleep_time
    /\ (mrpc = "get" /\ n403 > 0) => now >= wakeAt

C4_Witness ==
    /\ mrpc = "sleep"
    /\ lastResp.rl
    /\ lastResp.reset = Hdr(now + 5)
    /\ sleep_time = 6

\* C5 as stated: an answer that is neither a 200 nor a 403 due to rate limiting
\* makes _make_request fail, and the request is not issued again.
C5_OtherStatusIsFatal ==
    (lastResp.status \notin {0, 200} /\ ~(lastResp.status = 403 /\ lastResp.rl))
        => pc = "aborted" /\ mrpc = "raised"

\* C6: a 500 answer ends the run at once: nothing runs after it, so no request
\* follows, and the file of the phase it came in and the files of the later phases
\* are not written.
C6_ServerErrorAborts ==
    /\ lastResp.status = 500
          => pc = "aborted" /\ mrpc = "raised" /\ abortInfo.status = 500
    /\ (pc = "aborted" /\ abortInfo.status = 500)
          => /\ ~ENABLED Next
             /\ reposCsv = Absent
             /\ readme = Absent
             /\ abortInfo.at \in {"search_wait", "detail_wait", "repo_wait"}
             /\ abortInfo.at \in {"search_wait", "detail_wait"} => usersCsv = Absent

C6_Witness ==
    /\ pc = "aborted"
    /\ abortInfo.status = 500
    /\ abortInfo.at = "repo_wait"
    /\ gets.repos > 0
    /\ reposCsv = Absent

\* C7: when the token typed is empty, or only whitespace, the run ends with no
\* request issued, no scraper constructed and no file written.
C7_NoTokenNoRun ==
    typed \in {"empty", "spaces"}
        => /\ pc = "exit"
           /\ ~ENABLED Next
           /\ gets = [search |-> 0, user |-> 0, repos |-> 0]
           /\ mrpc = "idle"
           /\ headers = Absent
           /\ usersCsv = Absent /\ reposCsv = Absent /\ readme = Absent

C7_Witness ==
    /\ typed = "spaces"
    /\ pc = "exit"

\* whitespace follows the leading run of '@' of the trimmed string
SpaceAfterAtRun(s) ==
    LET t == Strip(s)
    IN \E k \in 1..(Len(t) - 1) :
          /\ \A i \in 1..k : t[i] = "@"
          /\ IsSpace(t[k + 1])

\* C8 as stated: clean_company_name(clean_company_name(s)) = clean_company_name(s)
\* for every s.
C8_Idempotent ==
    Len(fout) = 2 => fout[2] = fout[1]

\* C8, amended: clean_company_name(clean_company_name(s)) = clean_company_name(s)
\* for every s in whose trimmed form no whitespace follows the leading run of '@'.
C8_IdempotentNoSpaceAfterAt ==
    (Len(fout) = 2 /\ (fin = Null \/ ~SpaceAfterAtRun(fin.v)))
        => fout[2] = fout[1]

C8_Witness ==
    /\ Len(fout) = 2
    /\ fin = Txt(<<"@", "@", "a">>)
    /\ fout[1] = <<"A">>
    /\ fout[2] = <<"A">>

\* C9 as stated: clean_company_name(s) is s trimmed, without exactly one leading
\* '@' if it has one, in upper case; the empty string for empty and null input.
C9_OneAtRemoved ==
    Len(fout) >= 1 => fout[1] = CleanOneAt(fin)

\* C10 as stated: the normalizers never fail: whichever optional keys are missing
\* or null, a row comes out with the empty string in their fields.
C10_NormalizationNeverFails ==
    Len(fout) = 1
        => /\ ~IsErr(fout[1])
           /\ pc # "aborted"
           /\ fin.kind = "user" =>
                 /\ \A k \in {"name", "location", "email", "hireable", "bio"} :
                       fin.rec[k] \in {Null, Absent} => fout[1][k] = Str("")
                 /\ fin.rec.company \in {Null, Absent} => fout[1].company = Txt(<<>>)
           /\ fin.kind = "repo" =>
                 /\ fin.rec.language \in {Null, Absent} => fout[1].language = Str("")
                 /\ fin.rec.license \in {Null, Absent} => fout[1].license_name = Str("")

\* C11: in every user row hireable is the string "true" for true, "false" for false
\* and "" for null; in every repository row has_projects and has_wiki are the
\* strings "true" or "false" of the source booleans; none is a boolean.
C11_BooleansAsStrings ==
    (Len(fout) = 1 /\ ~IsErr(fout[1]))
        => /\ fin.kind = "user" =>
                 /\ fout[1].hireable.t = "str"
                 /\ fin.rec.hireable = Bool(TRUE) => fout[1].hireable.v = "true"
                 /\ fin.rec.hireable = Bool(FALSE) => fout[1].hireable.v = "false"
                 /\ fin.rec.hireable = Null => fout[1].hireable.v = ""
           /\ fin.kind = "repo" =>
                 /\ fout[1].has_projects.t = "str"
                 /\ fout[1].has_wiki.t = "str"
                 /\ fout[1].has_projects.v
                       = (IF fin.rec.has_projects.v THEN "true" ELSE "false")
                 /\ fout[1].has_wiki.v = (IF fin.rec.has_wiki.v THEN "true" ELSE "false")

C11_Witness ==
    /\ Len(fout) = 1
    /\ fin.kind = "user"
    /\ fin.rec.hireable = Bool(FALSE)
    /\ ~IsErr(fout[1])
    /\ fout[1].hireable = Str("false")

\* C12: search_users returns only in the step that takes an empty search page; a
\* page with items, however few, leads to its detail requests, and the last of
\* them to the request of the next page.
C12_EndsOnlyOnEmptyPage ==
    [][/\ (pc' = "users_returned" /\ pc # "users_returned")
             => (pc = "search_wait" /\ mrpc = "ret" /\ body.items = <<>>)
       /\ (pc = "search_wait" /\ mrpc = "ret" /\ body.items # <<>>)
             => (pc' = "detail_loop" /\ items' = body.items)
       /\ (pc = "detail_wait" /\ pc' \notin {"detail_wait", "detail_loop", "aborted"})
             => (pc' = "search_loop" /\ page' = page + 1 /\ idx = Len(items))
       /\ pc = "search_loop" => ENABLED SearchRequest]_vars

C12_Witness ==
    /\ pc = "users_returned"
    /\ up.pages = <<2, 1>>
    /\ Len(users) = 3
    /\ page = 3
    /\ body.items = <<>>

\* C14: the k items of a page get one detail request each, in page order and to the
\* item's own url, between the page's search request and the next one, and their
\* rows are appended in that order: row g of the output is the row of the g-th
\* search hit, duplicates included.
C14_OneDetailPerItem ==
    /\ pc \in {"detail_loop", "detail_wait"}
          => /\ items = SearchItems(page)
             /\ idx \in 1..Len(items)
             /\ Len(users) = SumTo(up.pages, page - 1) + idx - 1
    /\ pc = "detail_wait"
          => /\ req.url = items[idx].url
             /\ \A i \in 1..Len(sent) : sent[i].url = items[idx].url
    /\ pc \in {"search_loop", "search_wait", "users_returned"}
          => Len(users) = SumTo(up.pages, page - 1)
    /\ \A g \in 1..Len(users) :
          /\ users[g].login = Login(LoginId(g))
          /\ users[g] = CleanedData(UserDetail(LoginId(g)))
    /\ faults = 0
          => gets.user = Len(users)
                + (IF \/ (pc = "detail_wait" /\ mrpc = "ret")
                      \/ (pc = "aborted" /\ abortInfo.at = "detail_wait")
                   THEN 1 ELSE 0)

C14_Witness ==
    /\ pc = "users_returned"
    /\ up.pages = <<2, 2>>
    /\ up.nlogins = 2
    /\ faults = 0
    /\ gets.user = 4
    /\ Len(users) = 4
    /\ users[1] = users[3]

\* C13: against an upstream whose search runs dry, whose rate-limit episodes end
\* and that sends no fatal status, search_users returns in the end; against one
\* whose search pages are never empty, search_users never returns.
C13_ReturnsIffSearchRunsDry ==
    /\ (~up.endless) => <>(pc = "users_returned" \/ pc = "aborted")
    /\ [](up.endless => pc # "users_returned")

C13_Witness ==
    /\ up.endless
    /\ up.pages = <<2, 1>>
    /\ page = MaxPages + 1
    /\ pc = "search_loop"
    /\ Len(users) >= 6

\* the parameters of the page requests of the two protocols
SearchParams(p) == [q |-> Query, per_page |-> 100, page |-> p]
RepoParams(p) == [sort |-> "pushed", direction |-> "desc", per_page |-> 100, page |-> p]

\* C15: in both protocols the first page request carries page 1 and every later
\* one the previous index plus 1; a retry after a 403 repeats the request with
\* the same index; every page request carries per_page = 100 and every
\* repository page request sort=pushed and direction=desc.
C15_PageIndexes ==
    /\ [](/\ (pc = "search_wait" /\ mrpc # "idle")
                => /\ req.params = SearchParams(page)
                   /\ \A i \in 1..Len(sent) : sent[i].params = SearchParams(page)
          /\ (pc = "repo_wait" /\ mrpc # "idle")
                => /\ req.params = RepoParams(rpage)
                   /\ \A i \in 1..Len(sent) : sent[i].params = RepoParams(rpage)
          /\ pc \in {"search_loop", "search_wait", "detail_loop", "detail_wait"}
                => page >= 1
          /\ pc \in {"repo_loop", "repo_wait"} => rpage >= 1)
    /\ [][/\ (pc' = "search_loop" /\ pc # "search_loop")
                => \/ pc \in {"main_input", "call_search"} /\ page' = 1
                   \/ pc = "detail_wait" /\ page' = page + 1
          /\ (pc = "search_loop" /\ pc' # "search_loop")
                => /\ pc' = "search_wait"
                   /\ page' = page
                   /\ req'.params = SearchParams(page)
          /\ page' # page => pc' = "search_loop"
          /\ (pc' = "repo_loop" /\ pc # "repo_loop")
                => \/ pc \in {"repos_for", "call_repos"} /\ rpage' = 1
                   \/ pc = "repo_wait" /\ rpage' = rpage + 1
          /\ (pc = "repo_loop" /\ pc' = "repo_wait")
                => /\ rpage' = rpage
                   /\ req'.params = RepoParams(rpage)
          /\ rpage' # rpage => pc' = "repo_loop"]_vars

C15_Witness ==
    /\ pc = "repo_wait"
    /\ rpage = 2
    /\ page = 3
    /\ Len(sent) = 2
    /\ sent[1].params = RepoParams(2)
    /\ sent[2].params = RepoParams(2)

\* ceil(n / 100)
CeilPages(n) == (n + 99) \div 100

\* C16: get_user_repositories requests a page only while every earlier page
\* held 100 items and the accumulated count is below max_repos; after an empty
\* page, a page of fewer than 100 items or once the count has reached max_repos
\* it returns without a further request; so it issues at most
\* ceil(max_repos/100) page requests, retries apart, and none when max_repos = 0.
C16_RepoPagesStop ==
    /\ [](/\ pc = "repo_wait"
                => /\ Len(repos) < max_repos
                   /\ Len(repos) = (rpage - 1) * 100
                   /\ rpage <= CeilPages(max_repos)
          /\ gets.repos <= CeilPages(max_repos) + faults
          /\ max_repos = 0 => gets.repos = 0)
    /\ [][/\ (pc = "repo_wait" /\ mrpc = "ret" /\ Len(body) < 100)
                => (pc' \in {"repos_returned", "aborted"} /\ gets' = gets)
          /\ (pc = "repo_loop" /\ Len(repos) >= max_repos)
                => (pc' = "repos_returned" /\ gets' = gets)
          /\ pc = "repos_returned" => gets'.repos = gets.repos]_vars

C16_Witness ==
    /\ pc = "repos_returned"
    /\ max_repos = 150
    /\ RepoTotal(1) = 250
    /\ faults = 0
    /\ gets.repos = 2
    /\ Len(repos) = 200
    /\ Len(result) = 150

\* the per-user results of the first n users, one after the other
RECURSIVE ReposOfFirst(_)
ReposOfFirst(n) ==
    IF n = 0 THEN <<>>
    ELSE ReposOfFirst(n - 1) \o ExpectedRepos(users[n].login, 500)

SearchPhase ==
    {"main_input", "search_loop", "search_wait", "detail_loop", "detail_wait",
     "users_returned"}
RepoPhase == {"repos_for", "repo_loop", "repo_wait", "repos_returned"}
OutputPhase == {"write_repos", "write_readme", "done"}

\* C17: main issues no repository request before search_users has returned; it
\* then runs get_user_repositories once for each entry of users, in order (an
\* account listed twice is fetched twice), and the aggregated collection is the
\* concatenation of the per-user results in that order.
C17_ReposPerUserInOrder ==
    /\ [](/\ gets.repos > 0
                => /\ pc \notin SearchPhase
                   /\ pc = "aborted" => abortInfo.at = "repo_wait"
          /\ pc \in RepoPhase \cup OutputPhase
                => /\ users = ExpectedUsers
                   /\ all_repos = ReposOfFirst(uidx - 1)
          /\ pc \in {"repo_loop", "repo_wait", "repos_returned"}
                => /\ uidx \in 1..Len(users)
                   /\ username = users[uidx].login
                   /\ max_repos = 500
                   /\ pc = "repo_wait" => req.url = ReposUrl(username)
          /\ pc = "repos_returned" => result = ExpectedRepos(username, 500)
          /\ pc \in OutputPhase => uidx = Len(users) + 1
          /\ pc \in {"write_readme", "done"} => reposCsv = [rows |-> all_repos])
    /\ [][/\ uidx' # uidx
                => \/ pc = "users_returned" /\ uidx' = 1
                   \/ pc = "repos_returned" /\ uidx' = uidx + 1
          /\ (pc' = "repo_loop" /\ pc # "repo_loop")
                => \/ pc = "repos_for" /\ rpage' = 1 /\ repos' = <<>>
                   \/ pc = "repo_wait"
          /\ pc \in RepoPhase \cup OutputPhase => users' = users]_vars

C17_Witness ==
    /\ pc = "done"
    /\ up.pages = <<2>>
    /\ up.nlogins = 1
    /\ Len(users) = 2
    /\ users[1] = users[2]
    /\ faults = 0
    /\ gets.repos = 2
    /\ Len(reposCsv.rows) = 4
    /\ reposCsv.rows[1] = reposCsv.rows[3]

\* the logins of the user collection
UserLogins == {users[j].login : j \in 1..Len(users)}

\* the number of rows of owner o, and of places where a run of its rows starts
RowsOf(rows, o) == Cardinality({i \in 1..Len(rows) : rows[i].login = o})
BlocksOf(rows, o) ==
    Cardinality({i \in 1..Len(rows) :
                    /\ rows[i].login = o
                    /\ (i = 1 \/ rows[i - 1].login # o)})

DistinctLogins == \A i, j \in 1..Len(users) : users[i].login = users[j].login => i = j

\* C19 as stated: every repository row's login is the login of some user row,
\* and the rows of one owner form one contiguous block of at most 500 rows.
C19_OneBlockPerOwner ==
    /\ \A i \in 1..Len(all_repos) : all_repos[i].login \in UserLogins
    /\ \A o \in UserLogins :
         /\ BlocksOf(all_repos, o) <= 1
         /\ RowsOf(all_repos, o) <= 500

\* C19, amended: every repository row's login is the login of some user row; the
\* aggregated collection grows by one block per entry of the user collection, in
\* order, each block of at most 500 rows that all carry that entry's login; so
\* when the logins of the user collection are distinct, the rows of one owner
\* form one contiguous block of at most 500 rows.
C19_OneBlockPerListing ==
    /\ [](/\ \A i \in 1..Len(all_repos) : all_repos[i].login \in UserLogins
          /\ pc \in {"repo_loop", "repo_wait", "repos_returned"}
                => /\ Len(repos) <= 500
                   /\ \A i \in 1..Len(repos) : repos[i].login = users[uidx].login
          /\ DistinctLogins
                => \A o \in UserLogins :
                      /\ BlocksOf(all_repos, o) <= 1
                      /\ RowsOf(all_repos, o) <= 500)
    /\ [][all_repos' # all_repos
            => /\ pc = "repos_returned"
               /\ Len(result) <= 500
               /\ \A i \in 1..Len(result) : result[i].login = users[uidx].login
               /\ all_repos' = all_repos \o result
               /\ uidx' = uidx + 1]_vars

C19_Witness ==
    /\ pc = "done"
    /\ Len(users) = 3
    /\ users[1].login = users[3].login
    /\ users[1].login # users[2].login
    /\ Len(all_repos) = 4
    /\ all_repos[1].login = users[1].login
    /\ all_repos[2].login = users[2].login
    /\ all_repos[4].login = users[1].login
    /\ BlocksOf(all_repos, users[1].login) = 2

\* the run was stopped by an error raised during the repository phase
AbortedInRepoPhase == pc = "aborted" /\ abortInfo.at \in RepoPhase

\* C18 as stated: a collection is handed to the output stage only after the
\* whole retrieval has completed, and a run stopped by a fatal error has written
\* no output.
C18_NothingBeforeTheEnd ==
    /\ (usersCsv # Absent \/ reposCsv # Absent) => pc \in OutputPhase
    /\ pc = "aborted" => (usersCsv = Absent /\ reposCsv = Absent)

\* C18, amended: the user collection is written when search_users has returned,
\* before the first repository request; the repository collection is written
\* only after all the per-user fetches. A fatal error during the search leaves
\* no output; one during the repository phase leaves users.csv written, with
\* every user row, and no repositories.csv.
C18_UsersWrittenFirst ==
    /\ usersCsv # Absent
          <=> (pc \in RepoPhase \cup OutputPhase \/ AbortedInRepoPhase)
    /\ usersCsv # Absent => usersCsv = [rows |-> users]
    /\ gets.repos > 0 => usersCsv # Absent
    /\ reposCsv # Absent
          <=> pc \in {"write_readme", "done"}
    /\ reposCsv # Absent
          => (uidx = Len(users) + 1 /\ reposCsv = [rows |-> all_repos])
    /\ readme # Absent <=> pc = "done"
    /\ (pc = "aborted" /\ abortInfo.at \in SearchPhase)
          => (usersCsv = Absent /\ gets.repos = 0)

C18_Witness ==
    /\ AbortedInRepoPhase
    /\ usersCsv = [rows |-> users]
    /\ Len(users) = 3
    /\ Len(all_repos) > 0
    /\ uidx = 2
    /\ reposCsv = Absent
    /\ readme = Absent

=============================================================================
